---- MODULE Spec2Model ----
(***************************************************************************)
(* The batch scripts of the audio dataset preparation pipeline:            *)
(*   convert_to_wav_filter30s.py  webm -> wav conversion and 30 s filter    *)
(*   augmented_2x_speed.py        2x speed augmentation                     *)
(*   augmented_volume.py          volume gain augmentation                  *)
(*   augmented_noise.py           additive noise augmentation               *)
(*   augmented_lowpass.py         low-pass augmentation                     *)
(* One run of one script is one behaviour.  File names and paths are       *)
(* sequences of one-character strings, so that endswith, replace, rsplit   *)
(* and os.path.join are computed as Python computes them.  The external    *)
(* tools (ffmpeg, soundfile) answer nondeterministically; what they         *)
(* answered is recorded in rowlog / convlog.  What ffprobe reports for a   *)
(* source file of an augmentation run is fixed per file (probe_answer).    *)
(***************************************************************************)
EXTENDS Integers, Sequences, FiniteSets, TLC

\* ---------------------------------------------------------------- bounds
\* Largest number of rows of an input manifest.
MaxRows == 2

\* --------------------------------------------------------------- strings
Blank == << >>
\* A missing cell of a DataFrame (pandas NaN); never equal to a string.
NaNCell == <<"<NaN>">>
DotWav == <<".","w","a","v">>
DotWebm == <<".","w","e","b","m">>
Dot == <<".">>
Slash == <<"/">>

\* s.endswith(suf)
EndsWith(s, suf) ==
    /\ Len(s) >= Len(suf)
    /\ SubSeq(s, Len(s) - Len(suf) + 1, Len(s)) = suf

\* s.startswith(pre)
StartsWith(s, pre) ==
    /\ Len(s) >= Len(pre)
    /\ SubSeq(s, 1, Len(pre)) = pre

\* s.replace(old, new) for a non-empty old: every non-overlapping occurrence,
\* scanning from the left.
RECURSIVE Replace(_, _, _)
Replace(s, old, new) ==
    IF Len(s) < Len(old) THEN s
    ELSE IF SubSeq(s, 1, Len(old)) = old
         THEN new \o Replace(SubSeq(s, Len(old) + 1, Len(s)), old, new)
         ELSE <<Head(s)>> \o Replace(Tail(s), old, new)

\* Position of the last occurrence of the one-character sep in s, 0 if none.
RECURSIVE LastIndex(_, _)
LastIndex(s, sep) ==
    IF s = << >> THEN 0
    ELSE IF <<s[Len(s)]>> = sep THEN Len(s)
         ELSE LastIndex(SubSeq(s, 1, Len(s) - 1), sep)

\* s.rsplit(sep, 1)[0]
RSplitHead(s, sep) ==
    IF LastIndex(s, sep) = 0 THEN s ELSE SubSeq(s, 1, LastIndex(s, sep) - 1)

\* os.path.join(a, b) on POSIX
PathJoin(a, b) ==
    IF StartsWith(b, Slash) THEN b
    ELSE IF a = << >> \/ EndsWith(a, Slash) THEN a \o b
         ELSE a \o Slash \o b

\* str(cell): a missing cell prints as "nan"
Str(cell) == IF cell = NaNCell THEN <<"n","a","n">> ELSE cell

\* ------------------------------------------------------ script parameters
AugScripts == {"speed", "volume", "noise", "lowpass"}
Scripts == AugScripts \cup {"convert"}

input_folder == <<"w","e","b","a","u","d","i","o","s">>
wav_folder == <<"w","a","v","a","u","d","i","o","s">>
filtered_folder == <<"f","i","l","t","e","r","e","d","f","o","r","w","h","i","s","p","e","r">>

augmented_folder(s) ==
    CASE s = "speed" -> <<"a","u","g","m","e","n","t","e","d","_","2","x">>
      [] s = "volume" -> <<"a","u","g","m","e","n","t","e","d","_","v","o","l","u","m","e">>
      [] s = "noise" -> <<"a","u","g","m","e","n","t","e","d","_","n","o","i","s","e">>
      [] s = "lowpass" -> <<"a","u","g","m","e","n","t","e","d","_","l","o","w","p","a","s","s">>

\* The replacement text of filename.replace('.wav', ...)
Suffixed(s) ==
    CASE s = "speed" -> <<"_","2","x",".","w","a","v">>
      [] s = "volume" -> <<"_","v","o","l","u","m","e",".","w","a","v">>
      [] s = "noise" -> <<"_","n","o","i","s","e",".","w","a","v">>
      [] s = "lowpass" -> <<"_","l","o","w","p","a","s","s",".","w","a","v">>

\* Which scripts run ffprobe on the source before transforming it.
HasDurationCheck(s) == s \in {"volume", "noise", "lowpass"}

\* The exceptions the transform of a script can end with.
TransformErrors(s) ==
    IF s = "noise" THEN {"Exception"} ELSE {"CalledProcessError", "Exception"}

\* Whether the failed transform may have left an output file behind: ffmpeg
\* that ran and exited non-zero may have, ffmpeg that could not be started
\* has not; soundfile may fail in sf.read (no file) or in sf.write.
MayLeaveFile(s, err) == s = "noise" \/ err = "CalledProcessError"

\* The captured stderr of an ffmpeg that exited non-zero: empty, text, or
\* bytes that are not valid UTF-8.
StderrKinds == {"empty", "utf8", "not_utf8"}

\* The except handler itself raises: the speed and volume scripts run
\* e.stderr.decode() when stderr is not empty, before failed_count += 1, and
\* UnicodeDecodeError raised there is caught by nothing.  The low-pass
\* script prints the exception without decoding; the noise script runs no
\* subprocess in its try block.
HandlerRaises(s, err, stderr) ==
    /\ s \in {"speed", "volume"}
    /\ err = "CalledProcessError"
    /\ stderr = "not_utf8"

threshold_sec == 30

\* ------------------------------------------------------------ durations
\* Durations are whole microseconds; Seconds(n) is n seconds.
Seconds(n) == n * 1000000

\* The texts ffprobe may print (after strip()).
ProbeStdout == {"12.500000", "30.000000", "30.000001", "N/A", ""}
\* What running ffprobe may do: print one of them, or fail to run at all.
Raised == "<raised>"
ProbeResults == ProbeStdout \cup {Raised}

\* float(text): a number, or ValueError for the empty string and "N/A"
Float(text) ==
    CASE text = "12.500000" -> [kind |-> "num", us |-> 12500000]
      [] text = "30.000000" -> [kind |-> "num", us |-> 30000000]
      [] text = "30.000001" -> [kind |-> "num", us |-> 30000001]
      [] OTHER -> [kind |-> "ValueError", us |-> 0]

\* x > n and x <= n on floats
Gt(x, n) == x.kind = "num" /\ x.us > n
Le(x, n) == x.kind = "num" /\ x.us <= n

\* Variant: unparsable output counts as an over-long file instead of 0.0.
durationUnknownIsLong(stdout) ==
    IF Float(stdout).kind = "ValueError"
    THEN [kind |-> "num", us |-> Seconds(60)]
    ELSE Float(stdout)

\* try: duration = float(result.stdout.strip()) / except: duration = 0.0
duration(stdout) ==
    IF Float(stdout).kind = "ValueError"
    THEN [kind |-> "num", us |-> 0]
    ELSE Float(stdout)

\* Variant: the limit itself counts as too long (>= for >).
TooLongInclusive(d) == d.kind = "num" /\ d.us >= Seconds(30)

\* if duration > 30: (augmentation scripts)
TooLong(d) == Gt(d, Seconds(30))

\* Variant: a file of exactly the limit is not kept (< for <=).
KeepStrict(d) == d.kind = "num" /\ d.us < Seconds(threshold_sec)

\* if duration_sec <= threshold_sec: (conversion script)
Keep(d) == Le(d, Seconds(threshold_sec))

\* ------------------------------------------------------------------ inputs
\* Recording names an input manifest may hold; Blank is an empty cell.
RecordingNames == { <<"a",".","w","a","v">>, <<"a",".","w","a","v",".","w","a","v">>, <<"a",".","m","p","3">>, Blank }
WavFileNames == { <<"a",".","w","a","v">>, <<"a",".","w","a","v",".","w","a","v">> }
\* File names the conversion input folder may hold.
WebFileNames == { <<"a",".","w","e","b","m">>, <<"a",".","b",".","w","e","b","m">>, <<"b",".","w","e","b","m">>, <<"c",".","w","a","v">> }

\* A row of an input manifest file.  original_audio and earlier are the
\* columns an earlier stage of the chain has filled for its ".wav" rows when
\* the manifest comes from such a stage: the source path and that stage's
\* derived path.
InRow(name, chained) ==
    LET filled == chained /\ EndsWith(name, DotWav) IN
    [ RecordingName |-> name,
      original_audio |-> IF filled THEN PathJoin(filtered_folder, name) ELSE Blank,
      earlier |-> IF filled
                  THEN PathJoin(<<"a","u","g","m","e","n","t","e","d","_","v","o","l","u","m","e">>, Replace(name, DotWav, <<"_","v","o","l","u","m","e",".","w","a","v">>))
                  ELSE Blank ]
Manifests ==
    UNION { { [ i \in 1..n |-> InRow(names[i], chained) ] : names \in [1..n -> RecordingNames] }
            : n \in 0..MaxRows, chained \in BOOLEAN }

VARIABLES
    script,           \* which script runs
    pc,               \* "start", "loop", "done", "exited", "crashed"
    csv_exists,       \* os.path.exists(csv_path)
    inCsv,            \* rows of the input manifest file
    df,               \* the DataFrame
    idx,              \* 1-based position of the next row of df.iterrows()
    success_count, failed_count, not_found_count, deleted_count,
    fs,               \* the paths that exist on disk
    probe_answer,     \* what ffprobe does for each source file of filtered_folder
    outCsv,           \* rows of the output manifest file
    csvWrites,        \* how many times the output manifest was written
    rowlog,           \* per processed row: how the transform ended, what it wrote
    todo,             \* conversion: names of os.listdir(input_folder) not yet visited
    kept_count, skipped_count, failed_files,
    convlog           \* conversion: per visited file, what the tools answered

vars == << script, pc, csv_exists, inCsv, df, idx, success_count, failed_count,
           not_found_count, deleted_count, fs, probe_answer, outCsv, csvWrites,
           rowlog, todo, kept_count, skipped_count, failed_files, convlog >>

augVars == << csv_exists, inCsv, probe_answer, df, idx, success_count, failed_count,
              not_found_count, deleted_count, outCsv, csvWrites, rowlog >>
convVars == << todo, kept_count, skipped_count, failed_files, convlog >>

\* ----------------------------------------------------------- the manifest
\* pd.read_csv: an empty cell is read as NaN
ReadCell(c) == IF c = Blank THEN NaNCell ELSE c
read_csv(csv) ==
    [ i \in DOMAIN csv |->
        [ RecordingName |-> ReadCell(csv[i].RecordingName),
          original_audio |-> ReadCell(csv[i].original_audio),
          earlier |-> ReadCell(csv[i].earlier) ] ]

\* df['original_audio'] = "" ; df['augmented_audio_...'] = ""
AddColumns(d) ==
    [ i \in DOMAIN d |->
        [ RecordingName |-> d[i].RecordingName,
          original_audio |-> Blank,
          earlier |-> d[i].earlier,
          augmented_audio |-> Blank ] ]

\* df.to_csv(output_csv, index=False): every row, NaN written as an empty cell
WriteCell(c) == IF c = NaNCell THEN Blank ELSE c

\* Variant: only the rows that were augmented are written.
to_csv_augmented_only(d) ==
    SelectSeq([ i \in DOMAIN d |->
                  [ RecordingName |-> WriteCell(d[i].RecordingName),
                    original_audio |-> WriteCell(d[i].original_audio),
                    earlier |-> WriteCell(d[i].earlier),
                    augmented_audio |-> WriteCell(d[i].augmented_audio) ] ],
              LAMBDA r : r.augmented_audio # Blank)

to_csv(d) ==
    [ i \in DOMAIN d |->
        [ RecordingName |-> WriteCell(d[i].RecordingName),
          original_audio |-> WriteCell(d[i].original_audio),
          earlier |-> WriteCell(d[i].earlier),
          augmented_audio |-> WriteCell(d[i].augmented_audio) ] ]

\* ------------------------------------------------------------ per-row names
filename(i) == Str(df[i].RecordingName)
input_path(i) == PathJoin(filtered_folder, filename(i))
output_name(i) == Replace(filename(i), DotWav, Suffixed(script))
output_path(i) == PathJoin(augmented_folder(script), output_name(i))

NoLog == "-"
LogEntry(tool, wrote) == [tool |-> tool, wrote |-> wrote]

\* ------------------------------------------------------------------- Init
Init ==
    /\ script \in Scripts
    /\ pc = IF script = "convert" THEN "loop" ELSE "start"
    /\ csv_exists \in IF script = "convert" THEN {FALSE} ELSE BOOLEAN
    /\ inCsv \in IF csv_exists THEN Manifests ELSE { << >> }
    /\ todo \in IF script = "convert" THEN SUBSET WebFileNames ELSE { {} }
    /\ fs \in IF script = "convert"
              THEN { { PathJoin(input_folder, n) : n \in todo } }
              ELSE IF csv_exists
                   THEN { { PathJoin(filtered_folder, n) : n \in S } : S \in SUBSET WavFileNames }
                   ELSE { {} }
    /\ probe_answer \in IF script = "convert" THEN { << >> } ELSE [fs -> ProbeResults]
    /\ df = << >>
    /\ idx = 1
    /\ success_count = 0
    /\ failed_count = 0
    /\ not_found_count = 0
    /\ deleted_count = 0
    /\ outCsv = << >>
    /\ csvWrites = 0
    /\ rowlog = << >>
    /\ kept_count = 0
    /\ skipped_count = 0
    /\ failed_files = << >>
    /\ convlog = << >>

\* ------------------------------------------------- augmentation scripts
\* if not os.path.exists(csv_path): ... exit()
MissingCsv ==
    /\ pc = "start"
    /\ script \in AugScripts
    /\ ~csv_exists
    /\ pc' = "exited"
    /\ UNCHANGED << script, csv_exists, inCsv, df, idx, success_count, failed_count,
                    not_found_count, deleted_count, fs, probe_answer, outCsv, csvWrites, rowlog >>
    /\ UNCHANGED convVars

\* df = pd.read_csv(csv_path), the two new columns, the counters
LoadCsv ==
    /\ pc = "start"
    /\ script \in AugScripts
    /\ csv_exists
    /\ df' = AddColumns(read_csv(inCsv))
    /\ idx' = 1
    /\ pc' = "loop"
    /\ UNCHANGED << script, csv_exists, inCsv, success_count, failed_count,
                    not_found_count, deleted_count, fs, probe_answer, outCsv, csvWrites, rowlog >>
    /\ UNCHANGED convVars

\* The for loop has a row left.
InLoop == pc = "loop" /\ script \in AugScripts /\ idx <= Len(df)
\* Variant: the manifest is saved as soon as one row has been handled.
LoopFinishedEarly == idx > 1

\* The for loop is exhausted.
LoopFinished == idx > Len(df)

IsWav(i) == EndsWith(filename(i), DotWav)
Exists(p) == p \in fs

\* result = subprocess.run(duration_cmd, ...) on the row's source file
answer(i) == probe_answer[input_path(i)]
\* The row reaches the try block: the script has no duration check, or the
\* probe ran and the duration is not over the limit.
Passes(i) ==
    \/ ~HasDurationCheck(script)
    \/ answer(i) # Raised /\ ~TooLong(duration(answer(i)))

\* if not filename.endswith('.wav'): continue
SkipNotWav ==
    /\ InLoop
    /\ ~IsWav(idx)
    /\ idx' = idx + 1
    /\ rowlog' = Append(rowlog, LogEntry(NoLog, {}))
    /\ UNCHANGED << script, pc, csv_exists, inCsv, df, success_count, failed_count,
                    not_found_count, deleted_count, fs, probe_answer, outCsv, csvWrites >>
    /\ UNCHANGED convVars

\* Variant: the missing file is skipped without being counted.
NotFoundUncounted ==
    /\ InLoop
    /\ IsWav(idx)
    /\ ~Exists(input_path(idx))
    /\ idx' = idx + 1
    /\ rowlog' = Append(rowlog, LogEntry(NoLog, {}))
    /\ UNCHANGED << script, pc, csv_exists, inCsv, df, success_count, failed_count,
                    not_found_count, deleted_count, fs, probe_answer, outCsv, csvWrites >>
    /\ UNCHANGED convVars

\* if not os.path.exists(input_path): not_found_count += 1; continue
NotFound ==
    /\ InLoop
    /\ IsWav(idx)
    /\ ~Exists(input_path(idx))
    /\ not_found_count' = not_found_count + 1
    /\ idx' = idx + 1
    /\ rowlog' = Append(rowlog, LogEntry(NoLog, {}))
    /\ UNCHANGED << script, pc, csv_exists, inCsv, df, success_count, failed_count,
                    deleted_count, fs, probe_answer, outCsv, csvWrites >>
    /\ UNCHANGED convVars

\* result = subprocess.run(duration_cmd, ...) raises (it is outside any try):
\* the script ends with a traceback.
ProbeRaises ==
    /\ InLoop
    /\ IsWav(idx)
    /\ Exists(input_path(idx))
    /\ HasDurationCheck(script)
    /\ answer(idx) = Raised
    /\ pc' = "crashed"
    /\ UNCHANGED << script, csv_exists, inCsv, df, idx, success_count, failed_count,
                    not_found_count, deleted_count, fs, probe_answer, outCsv, csvWrites,
                    rowlog >>
    /\ UNCHANGED convVars

\* if duration > 30: deleted_count += 1; continue
FilteredOut ==
    /\ InLoop
    /\ IsWav(idx)
    /\ Exists(input_path(idx))
    /\ HasDurationCheck(script)
    /\ answer(idx) # Raised
    /\ TooLong(duration(answer(idx)))
    /\ rowlog' = Append(rowlog, LogEntry(NoLog, {}))
    /\ deleted_count' = deleted_count + 1
    /\ idx' = idx + 1
    /\ UNCHANGED << script, pc, csv_exists, inCsv, df, success_count, failed_count,
                    not_found_count, fs, probe_answer, outCsv, csvWrites >>
    /\ UNCHANGED convVars

\* The try block runs to its end.
TransformOk ==
    /\ InLoop
    /\ IsWav(idx)
    /\ Exists(input_path(idx))
    /\ Passes(idx)
    /\ rowlog' = Append(rowlog, LogEntry("ok", {output_path(idx)}))
    /\ df' = [df EXCEPT ![idx].original_audio = input_path(idx),
                        ![idx].augmented_audio = output_path(idx)]
    /\ fs' = fs \cup {output_path(idx)}
    /\ success_count' = success_count + 1
    /\ idx' = idx + 1
    /\ UNCHANGED << script, pc, csv_exists, inCsv, failed_count,
                    not_found_count, deleted_count, probe_answer, outCsv, csvWrites >>
    /\ UNCHANGED convVars

\* The transform raises and the handler runs to its end: failed_count += 1.
\* The tool may have left a (partial) output file behind.
TransformFails ==
    /\ InLoop
    /\ IsWav(idx)
    /\ Exists(input_path(idx))
    /\ Passes(idx)
    /\ \E err \in TransformErrors(script), stderr \in StderrKinds, partial \in BOOLEAN :
          /\ ~HandlerRaises(script, err, stderr)
          /\ partial => MayLeaveFile(script, err)
          /\ rowlog' = Append(rowlog,
                 LogEntry(err, IF partial THEN {output_path(idx)} ELSE {}))
          /\ fs' = IF partial THEN fs \cup {output_path(idx)} ELSE fs
    /\ df' = [df EXCEPT ![idx].original_audio = input_path(idx)]
    /\ failed_count' = failed_count + 1
    /\ idx' = idx + 1
    /\ UNCHANGED << script, pc, csv_exists, inCsv, success_count,
                    not_found_count, deleted_count, probe_answer, outCsv, csvWrites >>
    /\ UNCHANGED convVars

\* The transform raises CalledProcessError and the handler raises in turn:
\* the script ends with a traceback, the source path already recorded for
\* the row, the failure not counted.
TransformHandlerCrashes ==
    /\ InLoop
    /\ IsWav(idx)
    /\ Exists(input_path(idx))
    /\ Passes(idx)
    /\ \E err \in TransformErrors(script), stderr \in StderrKinds, partial \in BOOLEAN :
          /\ HandlerRaises(script, err, stderr)
          /\ partial => MayLeaveFile(script, err)
          /\ fs' = IF partial THEN fs \cup {output_path(idx)} ELSE fs
    /\ df' = [df EXCEPT ![idx].original_audio = input_path(idx)]
    /\ pc' = "crashed"
    /\ UNCHANGED << script, csv_exists, inCsv, idx, success_count, failed_count,
                    not_found_count, deleted_count, probe_answer, outCsv, csvWrites,
                    rowlog >>
    /\ UNCHANGED convVars

\* df.to_csv(output_csv, index=False) and the summary
SaveCsv ==
    /\ pc = "loop"
    /\ script \in AugScripts
    /\ LoopFinished
    /\ outCsv' = to_csv(df)
    /\ csvWrites' = csvWrites + 1
    /\ pc' = "done"
    /\ UNCHANGED << script, csv_exists, inCsv, df, idx, success_count, failed_count,
                    not_found_count, deleted_count, fs, probe_answer, rowlog >>
    /\ UNCHANGED convVars

\* ------------------------------------------------------ conversion script
conv_output_name(f) == RSplitHead(f, Dot) \o DotWav
wav_path(f) == PathJoin(wav_folder, conv_output_name(f))
filtered_path(f) == PathJoin(filtered_folder, conv_output_name(f))
ConvEntry(f, ffmpeg, probe, copy) ==
    [name |-> f, ffmpeg |-> ffmpeg, probe |-> probe, copy |-> copy]

ConvInLoop(f) == pc = "loop" /\ script = "convert" /\ f \in todo

\* a directory entry that does not end in ".webm" is passed over
ConvNotWebm(f) ==
    /\ ConvInLoop(f)
    /\ ~EndsWith(f, DotWebm)
    /\ todo' = todo \ {f}
    /\ convlog' = Append(convlog, ConvEntry(f, NoLog, NoLog, NoLog))
    /\ UNCHANGED << script, pc, fs, kept_count, skipped_count, failed_files >>
    /\ UNCHANGED augVars

\* ffmpeg exits non-zero or cannot be run: except Exception
ConvFfmpegFails(f) ==
    /\ ConvInLoop(f)
    /\ EndsWith(f, DotWebm)
    /\ \E err \in {"CalledProcessError", "Exception"}, partial \in BOOLEAN :
          /\ partial => err = "CalledProcessError"
          /\ convlog' = Append(convlog, ConvEntry(f, err, NoLog, NoLog))
          /\ fs' = IF partial THEN fs \cup {wav_path(f)} ELSE fs
    /\ failed_files' = Append(failed_files, f)
    /\ todo' = todo \ {f}
    /\ UNCHANGED << script, pc, kept_count, skipped_count >>
    /\ UNCHANGED augVars

\* ffprobe cannot be run, or float() raises ValueError: except Exception
ConvProbeFails(f) ==
    /\ ConvInLoop(f)
    /\ EndsWith(f, DotWebm)
    /\ \E out \in ProbeResults :
          /\ out = Raised \/ Float(out).kind = "ValueError"
          /\ convlog' = Append(convlog, ConvEntry(f, "ok", out, NoLog))
    /\ fs' = fs \cup {wav_path(f)}
    /\ failed_files' = Append(failed_files, f)
    /\ todo' = todo \ {f}
    /\ UNCHANGED << script, pc, kept_count, skipped_count >>
    /\ UNCHANGED augVars

\* duration_sec <= threshold_sec, and shutil.copy raises (it is inside the
\* try): except Exception records the file as failed, kept_count is not
\* incremented.  The copy may have left a (partial) destination file.
ConvCopyFails(f) ==
    /\ ConvInLoop(f)
    /\ EndsWith(f, DotWebm)
    /\ \E out \in ProbeStdout, partial \in BOOLEAN :
          /\ Float(out).kind # "ValueError"
          /\ Keep(Float(out))
          /\ convlog' = Append(convlog, ConvEntry(f, "ok", out, Raised))
          /\ fs' = IF partial THEN fs \cup {wav_path(f), filtered_path(f)}
                             ELSE fs \cup {wav_path(f)}
    /\ failed_files' = Append(failed_files, f)
    /\ todo' = todo \ {f}
    /\ UNCHANGED << script, pc, kept_count, skipped_count >>
    /\ UNCHANGED augVars

\* duration_sec <= threshold_sec: shutil.copy, kept_count += 1
ConvKept(f) ==
    /\ ConvInLoop(f)
    /\ EndsWith(f, DotWebm)
    /\ \E out \in ProbeStdout :
          /\ Float(out).kind # "ValueError"
          /\ Keep(Float(out))
          /\ convlog' = Append(convlog, ConvEntry(f, "ok", out, "ok"))
    /\ fs' = fs \cup {wav_path(f), filtered_path(f)}
    /\ kept_count' = kept_count + 1
    /\ todo' = todo \ {f}
    /\ UNCHANGED << script, pc, skipped_count, failed_files >>
    /\ UNCHANGED augVars

\* else: skipped_count += 1
ConvSkipped(f) ==
    /\ ConvInLoop(f)
    /\ EndsWith(f, DotWebm)
    /\ \E out \in ProbeStdout :
          /\ Float(out).kind # "ValueError"
          /\ ~Keep(Float(out))
          /\ convlog' = Append(convlog, ConvEntry(f, "ok", out, NoLog))
    /\ fs' = fs \cup {wav_path(f)}
    /\ skipped_count' = skipped_count + 1
    /\ todo' = todo \ {f}
    /\ UNCHANGED << script, pc, kept_count, failed_files >>
    /\ UNCHANGED augVars

\* the listing is exhausted: the summary is printed
ConvSummary ==
    /\ pc = "loop"
    /\ script = "convert"
    /\ todo = {}
    /\ pc' = "done"
    /\ UNCHANGED << script, fs, todo, kept_count, skipped_count, failed_files, convlog >>
    /\ UNCHANGED augVars

\* ------------------------------------------------------------------- Next
Next ==
    \/ MissingCsv
    \/ LoadCsv
    \/ SkipNotWav
    \/ NotFound
    \/ ProbeRaises
    \/ FilteredOut
    \/ TransformOk
    \/ TransformFails
    \/ TransformHandlerCrashes
    \/ SaveCsv
    \/ \E f \in todo : ConvNotWebm(f)
    \/ \E f \in todo : ConvFfmpegFails(f)
    \/ \E f \in todo : ConvProbeFails(f)
    \/ \E f \in todo : ConvCopyFails(f)
    \/ \E f \in todo : ConvKept(f)
    \/ \E f \in todo : ConvSkipped(f)
    \/ ConvSummary

Spec == Init /\ [][Next]_vars

\* ==================================================================
\* Properties
\* ==================================================================
\* Rows the loop has finished with.
Handled == 1..(idx - 1)
ProbingScripts == {"volume", "noise", "lowpass"}
ToolErrors == {"CalledProcessError", "Exception"}

\* The source name without its final ".wav".
Stem(name) == SubSeq(name, 1, Len(name) - Len(DotWav))
TransformSuffix(s) ==
    CASE s = "speed" -> <<"_","2","x">>
      [] s = "volume" -> <<"_","v","o","l","u","m","e">>
      [] s = "noise" -> <<"_","n","o","i","s","e">>
      [] s = "lowpass" -> <<"_","l","o","w","p","a","s","s">>

\* ffprobe printed a number above / at most 30 seconds, or nothing float() accepts.
Over30(a) == a \in ProbeStdout /\ Float(a).kind = "num" /\ Float(a).us > 30000000
Unparsable(a) == a \in ProbeStdout /\ Float(a).kind = "ValueError"

\* A .wav row whose source file is in the input folder.
Present(i) == IsWav(i) /\ Exists(input_path(i))
\* The row went through the try block / was left alone.
Attempted(i) == rowlog[i].tool # NoLog
Untouched(i) ==
    /\ rowlog[i].tool = NoLog
    /\ rowlog[i].wrote = {}
    /\ df[i].original_audio = Blank
    /\ df[i].augmented_audio = Blank

Count(S) == Cardinality(S)

\* ------------------------------------------------------------------ C1
\* C1: in every augmentation script, a .wav row whose source exists and
\* passes the duration filter produces exactly one derived file, named
\* <stem><suffix>.wav, <stem> being the source name without its final
\* ".wav".  Stated here for the rows whose transform did not fail (a failed
\* transform produces no complete file, as the failure clause of the same
\* contract provides), so a violation is a wrongly named derived file.
C1_DerivedFileNamedByStem ==
    script \in AugScripts =>
        \A i \in Handled :
            (Present(i) /\ rowlog[i].tool = "ok") =>
                rowlog[i].wrote =
                    { PathJoin(augmented_folder(script),
                               Stem(filename(i)) \o TransformSuffix(script) \o DotWav) }

\* The derived file of a source name with a single ".wav" is named as C1 says.
C1_SingleExtensionCase ==
    /\ script = "volume"
    /\ pc = "done"
    /\ \E i \in Handled :
          /\ filename(i) = <<"a",".","w","a","v">>
          /\ rowlog[i].wrote = { <<"a","u","g","m","e","n","t","e","d","_","v","o","l","u","m","e","/","a","_","v","o","l","u","m","e",".","w","a","v">> }

\* ------------------------------------------------------------------ C2
\* C2 as stated: every row whose source file does not exist is counted once
\* as not found and keeps its source-path and derived-path cells blank.
C2_EveryMissingRowCounted ==
    script \in AugScripts =>
        /\ not_found_count = Count({ i \in Handled : ~Exists(input_path(i)) })
        /\ \A i \in Handled : ~Exists(input_path(i)) => Untouched(i)
        /\ pc = "done" =>
              \A i \in DOMAIN outCsv : ~Exists(input_path(i)) =>
                  /\ outCsv[i].original_audio = Blank
                  /\ outCsv[i].augmented_audio = Blank

\* C2 amended: every row whose Recording Name ends in ".wav" and whose source
\* file does not exist is counted once as not found (no other row is), and
\* its source-path and derived-path cells are blank in the DataFrame and in
\* the output manifest; a row that does not end in ".wav" is not counted.
C2_MissingWavRowCounted ==
    script \in AugScripts =>
        /\ not_found_count = Count({ i \in Handled : IsWav(i) /\ ~Exists(input_path(i)) })
        /\ \A i \in Handled : ~Exists(input_path(i)) => Untouched(i)
        /\ pc = "done" =>
              \A i \in DOMAIN outCsv : ~Exists(input_path(i)) =>
                  /\ outCsv[i].original_audio = Blank
                  /\ outCsv[i].augmented_audio = Blank

C2_Witness ==
    /\ pc = "done"
    /\ not_found_count = 1
    /\ Len(df) = 2
    /\ \E i \in Handled : IsWav(i) /\ ~Exists(input_path(i))
    /\ \E i \in Handled : rowlog[i].tool = "ok"

\* ------------------------------------------------------------------ C3
\* C3: once the manifest is loaded no per-row error is fatal: the run never
\* ends in a traceback, every failed transform of a handled row is counted
\* in failed_count, and a finished run has written the output manifest.
C3_NoRowErrorIsFatal ==
    script \in AugScripts =>
        /\ pc # "crashed"
        /\ failed_count = Count({ i \in Handled : rowlog[i].tool \in ToolErrors })
        /\ pc = "done" => csvWrites = 1

\* ------------------------------------------------------------------ C4
\* C4 as stated: in every augmentation stage, speed change included, a row
\* whose source is longer than 30 s is counted as filtered out and left
\* alone, and a row of exactly 30 s is not filtered out.
C4_EveryStageFilters ==
    script \in AugScripts =>
        /\ \A i \in Handled : Present(i) =>
              /\ Over30(answer(i)) => Untouched(i)
              /\ answer(i) = "30.000000" => Attempted(i)
        /\ deleted_count = Count({ i \in Handled : Present(i) /\ Over30(answer(i)) })

\* C4 amended: in the volume, noise and low-pass stages a row whose source
\* is longer than 30 s is counted as filtered out, nothing is written for it
\* and its new cells stay blank, and a row of exactly 30 s is not filtered
\* out; the speed stage has no duration filter: it counts nothing as
\* filtered out and transforms a present row whatever its duration.
C4_ProbingStagesFilter ==
    /\ script \in ProbingScripts =>
          /\ \A i \in Handled : Present(i) =>
                /\ Over30(answer(i)) => Untouched(i)
                /\ answer(i) = "30.000000" => Attempted(i)
          /\ deleted_count = Count({ i \in Handled : Present(i) /\ Over30(answer(i)) })
    /\ script = "speed" =>
          /\ deleted_count = 0
          /\ \A i \in Handled : Present(i) => Attempted(i)

C4_Witness ==
    /\ script = "lowpass"
    /\ pc = "done"
    /\ deleted_count = 1
    /\ \E i \in Handled : Present(i) /\ Over30(answer(i)) /\ Untouched(i)
    /\ \E i \in Handled : Present(i) /\ answer(i) = "30.000000" /\ rowlog[i].tool = "ok"

\* ------------------------------------------------------------------ C5
\* Names recorded in failed_files.
FailedNames == { failed_files[k] : k \in DOMAIN failed_files }
\* Augmentation: unparsable probe output lets the row through the filter.
UnparsablePassesAugmentation ==
    script \in ProbingScripts =>
        /\ \A i \in Handled : (Present(i) /\ Unparsable(answer(i))) =>
              /\ Attempted(i)
              /\ df[i].original_audio = input_path(i)
        /\ deleted_count = Count({ i \in Handled : Present(i) /\ Over30(answer(i)) })
        /\ failed_count = Count({ i \in Handled : rowlog[i].tool \in ToolErrors })

\* C5 as stated: in the conversion script too, unparsable probe output is a
\* duration of zero: the file is kept and is not recorded as failed.
C5_UnparsableIsZeroEverywhere ==
    /\ UnparsablePassesAugmentation
    /\ script = "convert" =>
          \A k \in DOMAIN convlog :
              (convlog[k].ffmpeg = "ok" /\ Unparsable(convlog[k].probe)) =>
                  /\ filtered_path(convlog[k].name) \in fs
                  /\ convlog[k].name \notin FailedNames

\* C5 amended: in the volume, noise and low-pass scripts unparsable probe
\* output is a duration of zero: the row passes the 30 s filter, is not
\* counted as filtered out and is counted as failed only if its transform
\* fails; in the conversion script unparsable probe output makes the file a
\* failed one: it is recorded in failed_files and is not copied to the kept
\* directory.
C5_UnparsableIsZeroInAugmentation ==
    /\ UnparsablePassesAugmentation
    /\ script = "convert" =>
          \A k \in DOMAIN convlog :
              (convlog[k].ffmpeg = "ok" /\ Unparsable(convlog[k].probe)) =>
                  /\ filtered_path(convlog[k].name) \notin fs
                  /\ convlog[k].name \in FailedNames

C5_Witness ==
    /\ script = "volume"
    /\ pc = "done"
    /\ deleted_count = 0
    /\ failed_count = 0
    /\ \E i \in Handled :
          /\ Present(i)
          /\ answer(i) = "N/A"
          /\ rowlog[i].tool = "ok"
          /\ outCsv[i].augmented_audio # Blank

\* ------------------------------------------------------------------ C6
\* Entries of convlog for ".webm" files.
WebmEntries == { k \in DOMAIN convlog : EndsWith(convlog[k].name, DotWebm) }
ProbedAtMost30(k) ==
    /\ convlog[k].probe \in ProbeStdout
    /\ Float(convlog[k].probe).kind = "num"
    /\ Float(convlog[k].probe).us <= 30000000
ProbedOver30(k) ==
    /\ convlog[k].probe \in ProbeStdout
    /\ Float(convlog[k].probe).kind = "num"
    /\ Float(convlog[k].probe).us > 30000000
Copied(k) == filtered_path(convlog[k].name) \in fs

\* C6 as stated: in the conversion script every ".webm" file visited is
\* recorded as exactly one of kept, skipped, failed; its wav is copied to
\* filteredforwhisper if and only if ffmpeg succeeded and the probed
\* duration is at most 30 s, and then it is the kept one; a file longer than
\* 30 s is counted as skipped, not failed, and is not copied.
C6_KeptIffConvertedAndShort ==
    script = "convert" =>
        /\ kept_count + skipped_count + Len(failed_files) = Count(WebmEntries)
        /\ Count(FailedNames) = Len(failed_files)
        /\ \A k \in WebmEntries :
              /\ Copied(k) <=> (convlog[k].ffmpeg = "ok" /\ ProbedAtMost30(k))
              /\ Copied(k) => convlog[k].name \notin FailedNames
              /\ (convlog[k].ffmpeg = "ok" /\ ProbedOver30(k)) =>
                    /\ ~Copied(k)
                    /\ convlog[k].name \notin FailedNames
        /\ kept_count = Count({ k \in WebmEntries : Copied(k) })
        /\ skipped_count = Count({ k \in WebmEntries :
                                      convlog[k].ffmpeg = "ok" /\ ProbedOver30(k) })
        /\ \A k \in DOMAIN convlog \ WebmEntries : ~Copied(k)

\* shutil.copy raised for the file / the file was converted, is short enough
\* and its copy did not raise.
CopyRaised(k) == convlog[k].copy = Raised
ShortAndCopyable(k) ==
    convlog[k].ffmpeg = "ok" /\ ProbedAtMost30(k) /\ ~CopyRaised(k)

\* C6 amended: every ".webm" file visited is recorded as exactly one of
\* kept, skipped, failed; a wav is in filteredforwhisper only if ffmpeg
\* succeeded and the probed duration is at most 30 s; such a file is copied
\* and counted as kept if and only if shutil.copy did not raise, and if it
\* raised the file is recorded as failed and not counted as kept (a partial
\* copy may remain); a file longer than 30 s is counted as skipped, not
\* failed, and is not copied.
C6_KeptIffConvertedShortAndCopied ==
    script = "convert" =>
        /\ kept_count + skipped_count + Len(failed_files) = Count(WebmEntries)
        /\ Count(FailedNames) = Len(failed_files)
        /\ \A k \in WebmEntries :
              /\ Copied(k) => (convlog[k].ffmpeg = "ok" /\ ProbedAtMost30(k))
              /\ ShortAndCopyable(k) =>
                    /\ Copied(k)
                    /\ convlog[k].name \notin FailedNames
              /\ CopyRaised(k) =>
                    /\ convlog[k].ffmpeg = "ok" /\ ProbedAtMost30(k)
                    /\ convlog[k].name \in FailedNames
              /\ (convlog[k].ffmpeg = "ok" /\ ProbedOver30(k)) =>
                    /\ ~Copied(k)
                    /\ convlog[k].name \notin FailedNames
        /\ kept_count = Count({ k \in WebmEntries : ShortAndCopyable(k) })
        /\ skipped_count = Count({ k \in WebmEntries :
                                      convlog[k].ffmpeg = "ok" /\ ProbedOver30(k) })
        /\ \A k \in DOMAIN convlog \ WebmEntries : ~Copied(k)

C6_Witness ==
    /\ script = "convert"
    /\ pc = "done"
    /\ kept_count = 1
    /\ skipped_count = 1
    /\ Len(failed_files) = 1
    /\ \E k \in WebmEntries : convlog[k].probe = "30.000000" /\ convlog[k].copy = "ok" /\ Copied(k)
    /\ \E k \in WebmEntries : convlog[k].probe = "30.000001" /\ ~Copied(k)
    /\ \E k \in WebmEntries : CopyRaised(k) /\ ~Copied(k) /\ convlog[k].name \in FailedNames

\* ------------------------------------------------------------------ C7
\* C7: the output manifest of an augmentation script has as many rows as the
\* input manifest, and the same recordings in the same order, however the
\* rows were classified.
C7_RowsAndOrderPreserved ==
    (script \in AugScripts /\ pc = "done") =>
        /\ Len(outCsv) = Len(inCsv)
        /\ \A i \in DOMAIN inCsv : outCsv[i].RecordingName = inCsv[i].RecordingName

C7_Witness ==
    /\ script = "noise"
    /\ pc = "done"
    /\ Len(inCsv) = 2
    /\ inCsv[1].RecordingName = Blank
    /\ outCsv[2].augmented_audio # Blank
    /\ inCsv[1].RecordingName # inCsv[2].RecordingName

\* ------------------------------------------------------------------ C8
\* C8: a stage only adds columns or fills blank cells: every row keeps its
\* Recording Name, and no cell that was not blank in the input manifest
\* (original_audio, or the derived path of an earlier stage) is different or
\* blank in the output manifest.
C8_NoFilledCellLost ==
    (script \in AugScripts /\ pc = "done") =>
        /\ Len(outCsv) = Len(inCsv)
        /\ \A i \in DOMAIN inCsv :
              /\ outCsv[i].RecordingName = inCsv[i].RecordingName
              /\ inCsv[i].original_audio # Blank =>
                    outCsv[i].original_audio = inCsv[i].original_audio
              /\ inCsv[i].earlier # Blank => outCsv[i].earlier = inCsv[i].earlier

\* The cells of an earlier stage's derived-path column do survive a stage.
C8_EarlierColumnKept ==
    /\ script = "noise"
    /\ pc = "done"
    /\ \E i \in DOMAIN inCsv :
          /\ inCsv[i].earlier # Blank
          /\ outCsv[i].earlier = inCsv[i].earlier
          /\ outCsv[i].original_audio = inCsv[i].original_audio

\* ------------------------------------------------------------------ C9
\* C9: the output manifest is written at most once, and only when every row
\* has been handled: while a row is unhandled (also in a run that was cut
\* short) no output manifest exists, and every file a handled row wrote is
\* on disk.
C9_ManifestWrittenOnceAtEnd ==
    script \in AugScripts =>
        /\ csvWrites <= 1
        /\ csvWrites = 1 <=> pc = "done"
        /\ (pc = "start" \/ idx <= Len(df)) => (csvWrites = 0 /\ outCsv = << >>)
        /\ \A i \in Handled : rowlog[i].wrote \subseteq fs

C9_Witness ==
    /\ script = "volume"
    /\ pc = "crashed"
    /\ idx = 2
    /\ Len(df) = 2
    /\ rowlog[1].tool = "ok"
    /\ output_path(1) \in fs
    /\ csvWrites = 0

\* ------------------------------------------------------------------ C10
\* The run has ended: it printed its summary or stopped with a traceback.
RunEnded == pc \in {"done", "crashed"}
Succeeded(i) == i \in Handled /\ rowlog[i].tool = "ok"

\* C10: at the end of any augmentation run, a row's derived-path cell is
\* filled if and only if its transform succeeded, the success counter is the
\* number of such rows, and every ".wav" row has been counted in exactly one
\* of the counters success, failed, not-found, filtered-out, so that their
\* sum is the number of ".wav" rows; a row whose transform failed has its
\* source-path cell filled and its derived-path cell blank.
C10_CountersPartitionWavRows ==
    (script \in AugScripts /\ RunEnded) =>
        /\ \A i \in DOMAIN df :
              /\ df[i].augmented_audio # Blank <=> Succeeded(i)
              /\ (i \in Handled /\ rowlog[i].tool \in ToolErrors) =>
                    /\ df[i].original_audio = input_path(i)
                    /\ df[i].augmented_audio = Blank
        /\ success_count = Count({ i \in DOMAIN df : Succeeded(i) })
        /\ success_count + failed_count + not_found_count + deleted_count
              = Count({ i \in DOMAIN df : IsWav(i) })

\* In a run that reaches its summary the counters do partition the ".wav"
\* rows, and the output manifest shows a derived path exactly for the rows
\* whose transform succeeded.
FinishedRunCountersPartition ==
    (script \in AugScripts /\ pc = "done") =>
        /\ Handled = DOMAIN df
        /\ \A i \in DOMAIN outCsv :
              /\ outCsv[i].augmented_audio # Blank <=> rowlog[i].tool = "ok"
              /\ rowlog[i].tool \in ToolErrors =>
                    /\ outCsv[i].original_audio = input_path(i)
                    /\ outCsv[i].augmented_audio = Blank
        /\ success_count = Count({ i \in Handled : rowlog[i].tool = "ok" })
        /\ failed_count = Count({ i \in Handled : rowlog[i].tool \in ToolErrors })
        /\ success_count + failed_count + not_found_count + deleted_count
              = Count({ i \in Handled : IsWav(i) })

C10_Witness ==
    /\ script = "speed"
    /\ pc = "done"
    /\ success_count = 1
    /\ failed_count = 1
    /\ \E i \in Handled : rowlog[i].tool = "CalledProcessError" /\ outCsv[i].augmented_audio = Blank
    /\ \E i \in Handled : rowlog[i].tool = "ok" /\ outCsv[i].augmented_audio # Blank

====
